---- MODULE Spec2Model ----
(***************************************************************************)
(* Model of packages/services/examples/typescript-browser-with-output/     *)
(* main.py: the ExampleApp notebook application, the two route entries it  *)
(* registers in start(), the page handler ExampleHander and the static     *)
(* file handler it configures.                                             *)
(*                                                                         *)
(* Strings that are matched against route patterns are sequences of        *)
(* one-character strings; directories and files are sequences of path      *)
(* segments.                                                               *)
(***************************************************************************)
EXTENDS Integers, Sequences, FiniteSets, TLC

VARIABLES state, handlers, settings, files, requests

vars == <<state, handlers, settings, files, requests>>

----------------------------------------------------------------------------
(* Bounds *)

\* longest sub-path requested under "/example/"
MaxSub == 1

\* number of requests that can be in flight at once
MaxInflight == 2

----------------------------------------------------------------------------
(* Request paths *)

Alphabet == {"/", "a"}

\* the literal text "/example" of both route patterns and of default_url
EXAMPLE == <<"/", "e", "x", "a", "m", "p", "l", "e">>

RECURSIVE SeqsUpTo(_)
SeqsUpTo(n) ==
    IF n = 0 THEN {<<>>}
    ELSE LET S == SeqsUpTo(n - 1)
         IN  S \cup {Append(s, c) : s \in {t \in S : Len(t) = n - 1}, c \in Alphabet}

Front(s) == SubSeq(s, 1, Len(s) - 1)

\* request paths a client can send: "/exampl", "/example", "/examplea" and
\* "/example/" followed by a sub-path
Paths ==
    {Front(EXAMPLE), EXAMPLE, EXAMPLE \o <<"a">>}
        \cup {EXAMPLE \o <<"/">> \o t : t \in SeqsUpTo(MaxSub)}

----------------------------------------------------------------------------
(* Route patterns *)

Lit(c) == [t |-> "lit", c |-> c]
Opt(c) == [t |-> "opt", c |-> c]
Group  == [t |-> "group", c |-> "."]

Lits(s) == [i \in 1..Len(s) |-> Lit(s[i])]

\* the root pattern without its optional trailing slash
PatRootNoSlash == Lits(EXAMPLE)

\* r'/example/?'
PatRoot == Lits(EXAMPLE) \o <<Opt("/")>>

\* the sub-path pattern without the slash before its group
PatSubNoSlash == Lits(EXAMPLE) \o <<Group>>

\* r"/example/(.*)"
PatSub == Lits(EXAMPLE) \o <<Lit("/"), Group>>

NoMatch == [ok |-> FALSE, groups |-> <<>>]

\* match of a pattern against a whole path (the host anchors the pattern at
\* both ends); "?" and ".*" are greedy and backtrack
RECURSIVE ReMatch(_, _), StarMatch(_, _, _)
ReMatch(pat, s) ==
    IF pat = <<>>
    THEN IF s = <<>> THEN [ok |-> TRUE, groups |-> <<>>] ELSE NoMatch
    ELSE LET h == Head(pat)
             rest == Tail(pat)
             eat == IF s # <<>> /\ Head(s) = h.c THEN ReMatch(rest, Tail(s)) ELSE NoMatch
         IN  CASE h.t = "lit" -> eat
               [] h.t = "opt" -> IF eat.ok THEN eat ELSE ReMatch(rest, s)
               [] h.t = "group" -> StarMatch(rest, s, Len(s))

StarMatch(rest, s, k) ==
    LET r == ReMatch(rest, SubSeq(s, k + 1, Len(s)))
    IN  IF r.ok THEN [ok |-> TRUE, groups |-> <<SubSeq(s, 1, k)>> \o r.groups]
        ELSE IF k = 0 THEN NoMatch
        ELSE StarMatch(rest, s, k - 1)

----------------------------------------------------------------------------
(* Directories and files *)

\* os.path.dirname(__file__)
HERE == <<"here">>

\* the static root without the 'build' component
BuildDirIsHere == HERE

\* os.path.join(HERE, 'build')
BuildDir == HERE \o <<"build">>

IndexHtml == HERE \o <<"index.html">>

AllFiles == {IndexHtml, BuildDir \o <<"a">>}

\* LOADER = FileSystemLoader(HERE): the file a template name resolves to
LoaderPath(name) == HERE \o <<name>>

\* the path segments of a sub-path: the text between "/" characters
RECURSIVE Split(_, _)
Split(s, cur) ==
    IF s = <<>> THEN <<cur>>
    ELSE IF Head(s) = "/" THEN <<cur>> \o Split(Tail(s), "")
    ELSE Split(Tail(s), cur \o Head(s))

----------------------------------------------------------------------------
(* Settings of the host application *)

Tokens == {"t1", "t2"}

\* the settings maps the host can hand to a handler: each of the two keys
\* the page handler reads may be present or absent
SettingsMaps ==
    {[k \in d |-> IF k = "token" THEN tok ELSE "env"] :
        d \in SUBSET {"token", "jinja2_env"}, tok \in Tokens}

HasKey(m, k) == k \in DOMAIN m

----------------------------------------------------------------------------
(* Route table *)

ExampleHander == "ExampleHander"
FileFindHandler == "FileFindHandler"
HostHandlers == "host"

\* the two entries in the opposite order
StartHandlersSwapped ==
    << [pattern |-> PatSub, handler |-> FileFindHandler,
        kwargs |-> << <<"path", BuildDir>> >>],
       [pattern |-> PatRoot, handler |-> ExampleHander, kwargs |-> <<>>] >>

\* the list built in ExampleApp.start
StartHandlers ==
    << [pattern |-> PatRoot, handler |-> ExampleHander, kwargs |-> <<>>],
       [pattern |-> PatSub, handler |-> FileFindHandler,
        kwargs |-> << <<"path", BuildDir>> >>] >>

NoRoute == [handler |-> HostHandlers, args |-> <<>>, kwargs |-> <<>>]

\* the rules are tried in order and the first whose pattern matches the
\* path selects the handler; the captured groups become its arguments
RECURSIVE Dispatch(_, _)
Dispatch(rules, path) ==
    IF rules = <<>> THEN NoRoute
    ELSE LET m == ReMatch(Head(rules).pattern, path)
         IN  IF m.ok
             THEN [handler |-> Head(rules).handler, args |-> m.groups,
                   kwargs |-> Head(rules).kwargs]
             ELSE Dispatch(Tail(rules), path)

----------------------------------------------------------------------------
(* Responses *)

NoResponse == [status |-> 0, kind |-> "none", name |-> "", ctx |-> {},
               file |-> <<>>, exc |-> ""]

\* the host's error response for an exception a handler lets escape
ServerError(e) == [status |-> 500, kind |-> "error", name |-> "", ctx |-> {},
                   file |-> <<>>, exc |-> e]

NotFound == [status |-> 404, kind |-> "error", name |-> "", ctx |-> {},
             file |-> <<>>, exc |-> "HTTPError"]

\* a rendered template written as the body
Rendered(name, tpl, ctx) == [status |-> 200, kind |-> "render", name |-> name,
                             ctx |-> ctx, file |-> tpl, exc |-> ""]

\* the content of a file written as the body
FileBody(f) == [status |-> 200, kind |-> "file", name |-> "", ctx |-> {},
                file |-> f, exc |-> ""]

\* a get_template that swallows a missing template and yields an empty one
GetTemplateSwallow(s, fs, name) ==
    IF ~HasKey(s, "jinja2_env") THEN [ok |-> FALSE, tpl |-> <<>>, exc |-> "KeyError"]
    ELSE IF LoaderPath(name) \notin fs THEN [ok |-> TRUE, tpl |-> <<>>, exc |-> ""]
    ELSE [ok |-> TRUE, tpl |-> LoaderPath(name), exc |-> ""]

\* ExampleHander.get_template: LOADER.load(self.settings['jinja2_env'], name)
GetTemplate(s, fs, name) ==
    IF ~HasKey(s, "jinja2_env") THEN [ok |-> FALSE, tpl |-> <<>>, exc |-> "KeyError"]
    ELSE IF LoaderPath(name) \notin fs
         THEN [ok |-> FALSE, tpl |-> <<>>, exc |-> "TemplateNotFound"]
    ELSE [ok |-> TRUE, tpl |-> LoaderPath(name), exc |-> ""]

\* a get that leaves the token out of the template context
PageResponseNoToken(s, fs) ==
    IF ~HasKey(s, "token") THEN ServerError("KeyError")
    ELSE LET ctx == {<<"static", "static_url">>, <<"base_url", "base_url">>}
             t == GetTemplate(s, fs, "index.html")
         IN  IF t.ok THEN Rendered("index.html", t.tpl, ctx) ELSE ServerError(t.exc)

\* ExampleHander.get: the keyword arguments are evaluated first, then the
\* template is loaded and rendered, then the result is written
PageResponse(s, fs) ==
    IF ~HasKey(s, "token") THEN ServerError("KeyError")
    ELSE LET ctx == {<<"static", "static_url">>, <<"base_url", "base_url">>,
                     <<"token", s["token"]>>}
             t == GetTemplate(s, fs, "index.html")
         IN  IF t.ok THEN Rendered("index.html", t.tpl, ctx) ELSE ServerError(t.exc)

PathOption(kwargs) == (CHOOSE kv \in {kwargs[i] : i \in DOMAIN kwargs} : kv[1] = "path")[2]

\* the static file handler: the file named by the sub-path under its root
StaticResponse(kwargs, args, fs) ==
    LET f == PathOption(kwargs) \o Split(args[1], "")
    IN  IF f \in fs THEN FileBody(f) ELSE NotFound

----------------------------------------------------------------------------
(* State *)

Idle == [stage |-> "idle", path |-> <<>>, handler |-> "none", args |-> <<>>,
         kwargs |-> <<>>, response |-> NoResponse]

Slots == 1..MaxInflight

Init ==
    /\ state = "unstarted"
    /\ handlers = <<>>
    /\ settings \in SettingsMaps
    /\ files \in SUBSET AllFiles
    /\ requests = [i \in Slots |-> Idle]

\* a start that registers the entries twice
StartTwice ==
    /\ state = "unstarted"
    /\ handlers' = handlers \o StartHandlers \o StartHandlers
    /\ state' = "running"
    /\ UNCHANGED <<settings, files, requests>>

\* a start that runs the host before registering, so nothing is registered
StartNoRegister ==
    /\ state = "unstarted"
    /\ handlers' = handlers
    /\ state' = "running"
    /\ UNCHANGED <<settings, files, requests>>

\* ExampleApp.start: register the two entries, then run the host
Start ==
    /\ state = "unstarted"
    /\ handlers' = handlers \o StartHandlers
    /\ state' = "running"
    /\ UNCHANGED <<settings, files, requests>>

\* the running host receives a request and routes it
Request(i, p) ==
    /\ state = "running"
    /\ requests[i].stage = "idle"
    /\ LET d == Dispatch(handlers, p)
       IN  requests' = [requests EXCEPT ![i] =
                [stage |-> "routed", path |-> p, handler |-> d.handler,
                 args |-> d.args, kwargs |-> d.kwargs, response |-> NoResponse]]
    /\ UNCHANGED <<state, handlers, settings, files>>

Respond(i, resp) ==
    requests' = [requests EXCEPT ![i].stage = "done", ![i].response = resp]

\* a get that reuses the page rendered for another request
ExampleHanderGetCached(i) ==
    /\ requests[i].stage = "routed"
    /\ requests[i].handler = ExampleHander
    /\ LET cached == {j \in Slots \ {i} : /\ requests[j].stage = "done"
                                          /\ requests[j].handler = ExampleHander
                                          /\ requests[j].response.status = 200}
       IN  IF cached # {}
           THEN Respond(i, requests[CHOOSE j \in cached : TRUE].response)
           ELSE Respond(i, PageResponse(settings, files))
    /\ UNCHANGED <<state, handlers, settings, files>>

\* GET served by ExampleHander.get
ExampleHanderGet(i) ==
    /\ requests[i].stage = "routed"
    /\ requests[i].handler = ExampleHander
    /\ Respond(i, PageResponse(settings, files))
    /\ UNCHANGED <<state, handlers, settings, files>>

\* GET served by the static file handler
FileFindHandlerGet(i) ==
    /\ requests[i].stage = "routed"
    /\ requests[i].handler = FileFindHandler
    /\ Respond(i, StaticResponse(requests[i].kwargs, requests[i].args, files))
    /\ UNCHANGED <<state, handlers, settings, files>>

\* a path no entry of this application matches is left to the host's own
\* routes, which answer it and free the connection
HostGet(i) ==
    /\ requests[i].stage = "routed"
    /\ requests[i].handler = HostHandlers
    /\ requests' = [requests EXCEPT ![i] = Idle]
    /\ UNCHANGED <<state, handlers, settings, files>>

\* the response has been sent and the connection is free again
Finish(i) ==
    /\ requests[i].stage = "done"
    /\ requests' = [requests EXCEPT ![i] = Idle]
    /\ UNCHANGED <<state, handlers, settings, files>>

\* the template and the build output are external inputs that can change
WriteFile(f) ==
    /\ f \notin files
    /\ files' = files \cup {f}
    /\ UNCHANGED <<state, handlers, settings, requests>>

RemoveFile(f) ==
    /\ f \in files
    /\ files' = files \ {f}
    /\ UNCHANGED <<state, handlers, settings, requests>>

Next ==
    \/ Start
    \/ \E i \in Slots, p \in Paths : Request(i, p)
    \/ \E i \in Slots : ExampleHanderGet(i)
    \/ \E i \in Slots : FileFindHandlerGet(i)
    \/ \E i \in Slots : HostGet(i)
    \/ \E i \in Slots : Finish(i)
    \/ \E f \in AllFiles : WriteFile(f)
    \/ \E f \in AllFiles : RemoveFile(f)

Spec == Init /\ [][Next]_vars

TypeOK ==
    /\ state \in {"unstarted", "running"}
    /\ settings \in SettingsMaps
    /\ files \subseteq AllFiles
    /\ \A i \in Slots : requests[i].stage \in {"idle", "routed", "done"}

----------------------------------------------------------------------------
(* Helpers of the properties *)

Reverse(s) == [i \in 1..Len(s) |-> s[Len(s) + 1 - i]]

Active(i) == requests[i].stage # "idle"

\* the step in which request i receives its response
Completes(i) == requests[i].stage = "routed" /\ requests'[i].stage = "done"

RootSlash == EXAMPLE \o <<"/">>

\* the path is "/example/" followed by at least one character
IsSubPath(p) == Len(p) > Len(RootSlash) /\ SubSeq(p, 1, Len(RootSlash)) = RootSlash

SubOf(p) == SubSeq(p, Len(RootSlash) + 1, Len(p))

RECURSIVE Concat(_)
Concat(s) == IF s = <<>> THEN "" ELSE Head(s) \o Concat(Tail(s))

----------------------------------------------------------------------------
(* C1 *)

\* C1 (as stated): for both orders of the two route entries, "/example" and
\* "/example/" are dispatched to the page handler and every "/example/<sub>"
\* with a non-empty <sub> to the static handler, so that swapping the order
\* changes the handler of no path.
C1_OrderIrrelevant ==
    \A i \in Slots : Active(i) =>
        LET p == requests[i].path
        IN  \A rules \in {handlers, Reverse(handlers)} :
              /\ p \in {EXAMPLE, RootSlash} => Dispatch(rules, p).handler = ExampleHander
              /\ IsSubPath(p) => Dispatch(rules, p).handler = FileFindHandler
              /\ Dispatch(rules, p).handler = requests[i].handler

\* the handler selected for every path, with the entries in the order of
\* start() and with the two entries swapped
RegisteredOrder == [p \in Paths |-> Dispatch(StartHandlers, p)]

SwappedOrder == [p \in Paths |-> Dispatch(Reverse(StartHandlers), p)]

\* C1 (amended): for both orders "/example" goes to the page handler and
\* every "/example/<non-empty>" to the static handler; "/example/" is matched
\* by both patterns and goes to the page handler in the registered order but
\* to the static handler, with an empty sub-path, when the order is swapped.
\* Swapping changes the handler of exactly the path "/example/".
C1_OrderMattersOnlyForRootSlash ==
    \A i \in Slots : Active(i) =>
        LET p == requests[i].path
            a == RegisteredOrder[p]
            b == SwappedOrder[p]
        IN  /\ handlers = StartHandlers
            /\ a.handler = requests[i].handler
            /\ p = EXAMPLE => a.handler = ExampleHander /\ b.handler = ExampleHander
            /\ IsSubPath(p) => a.handler = FileFindHandler /\ b.handler = FileFindHandler
            /\ p = RootSlash => /\ a.handler = ExampleHander
                                /\ b.handler = FileFindHandler
                                /\ b.args = << <<>> >>
            /\ (a.handler # b.handler) <=> (p = RootSlash)

C1_Witness ==
    \E i \in Slots : /\ requests[i].stage = "routed"
                     /\ requests[i].path = RootSlash
                     /\ requests[i].handler = ExampleHander

----------------------------------------------------------------------------
(* C2 *)

ThreeValues(ctx) ==
    /\ Cardinality(ctx) = 3
    /\ {kv[1] : kv \in ctx} = {"static", "base_url", "token"}
    /\ <<"token", settings["token"]>> \in ctx

PageRendered(i) ==
    /\ requests[i].handler = ExampleHander
    /\ requests'[i].response.status = 200
    /\ requests'[i].response.kind = "render"
    /\ requests'[i].response.name = "index.html"
    /\ requests'[i].response.file = HERE \o <<"index.html">>
    /\ ThreeValues(requests'[i].response.ctx)

\* C2 (as stated): a GET on "/example" is served by the page handler, which
\* renders index.html with exactly the values static, base_url and token and
\* writes the result with status 200, whenever index.html exists and the
\* settings contain a token.
C2_RootRendersWithToken ==
    [][\A i \in Slots :
         (/\ Completes(i)
          /\ requests[i].path = EXAMPLE
          /\ HERE \o <<"index.html">> \in files
          /\ HasKey(settings, "token")) => PageRendered(i)]_vars

\* C2 (amended): the same, whenever index.html exists and the settings
\* contain both a token and the jinja2_env entry that get_template reads.
C2_RootRendersWithTokenAndEnv ==
    [][\A i \in Slots :
         (/\ Completes(i)
          /\ requests[i].path = EXAMPLE
          /\ HERE \o <<"index.html">> \in files
          /\ HasKey(settings, "token")
          /\ HasKey(settings, "jinja2_env")) => PageRendered(i)]_vars

C2_Witness ==
    \E i \in Slots : /\ requests[i].stage = "done"
                     /\ requests[i].path = EXAMPLE
                     /\ requests[i].response.status = 200
                     /\ requests[i].response.kind = "render"
                     /\ <<"token", "t2">> \in requests[i].response.ctx

----------------------------------------------------------------------------
(* C3 *)

\* the files directly inside <module dir>/build and the sub-path naming each
BuildFiles == {f \in files : Len(f) = 3 /\ SubSeq(f, 1, 2) = <<"here", "build">>}

Names(f, sub) == "/" \notin {sub[k] : k \in DOMAIN sub} /\ Concat(sub) = f[3]

\* C3: every request "/example/<file>" is routed to the static handler
\* configured with path = <module dir>/build and is given exactly <file> as
\* its argument; when <file> names a file of the build directory the response
\* is that file's content with status 200.
C3_StaticServesBuildFile ==
    [][\A i \in Slots :
         (requests[i].stage = "routed" /\ IsSubPath(requests[i].path)) =>
            /\ requests[i].handler = FileFindHandler
            /\ requests[i].kwargs = << <<"path", <<"here", "build">> >> >>
            /\ requests[i].args = <<SubOf(requests[i].path)>>
            /\ \A f \in BuildFiles :
                 (Completes(i) /\ Names(f, SubOf(requests[i].path))) =>
                    /\ requests'[i].response.status = 200
                    /\ requests'[i].response.kind = "file"
                    /\ requests'[i].response.file = f]_vars

C3_Witness ==
    \E i \in Slots : /\ requests[i].stage = "done"
                     /\ requests[i].path = RootSlash \o <<"a">>
                     /\ requests[i].handler = FileFindHandler
                     /\ requests[i].response.status = 200
                     /\ requests[i].response.file = <<"here", "build", "a">>

----------------------------------------------------------------------------
(* C5 *)

\* C5: a root-path GET handled while index.html is absent or the settings
\* have no token ends in the host's error response with status 500, never in
\* a success response; the response of a finished request is not replaced
\* (no retry), the request is only closed.
C5_RenderFailureIsServerError ==
    [][\A i \in Slots :
         /\ (/\ Completes(i)
             /\ requests[i].path \in {EXAMPLE, RootSlash}
             /\ (HERE \o <<"index.html">> \notin files \/ ~HasKey(settings, "token")))
            => /\ requests[i].handler = ExampleHander
               /\ requests'[i].response.status = 500
               /\ requests'[i].response.kind = "error"
               /\ requests'[i].response.exc \in {"KeyError", "TemplateNotFound"}
               /\ requests'[i].response.ctx = {}
               /\ requests'[i].response.file = <<>>
         /\ requests[i].stage = "done"
            => requests'[i] = requests[i] \/ requests'[i].stage = "idle"]_vars

C5_Witness ==
    \E i \in Slots : /\ requests[i].stage = "done"
                     /\ requests[i].handler = ExampleHander
                     /\ requests[i].response.status = 500
                     /\ requests[i].response.exc = "TemplateNotFound"
                     /\ HasKey(settings, "token")

----------------------------------------------------------------------------
(* C6 *)

\* C6: the two entries are added once, by start(): the table is empty before
\* start, holds exactly the two entries in registration order once running,
\* and no step taken while running changes it.
C6_RoutesRegisteredOnce ==
    [][/\ state = "unstarted" => handlers = <<>>
       /\ state' = "running" =>
            /\ Len(handlers') = 2
            /\ handlers'[1].pattern = PatRoot /\ handlers'[1].handler = ExampleHander
            /\ handlers'[2].pattern = PatSub /\ handlers'[2].handler = FileFindHandler
       /\ state = "running" => handlers' = handlers]_vars

C6_Witness ==
    /\ state = "running"
    /\ Len(handlers) = 2
    /\ \E i, j \in Slots : /\ requests[i].stage = "done"
                           /\ requests[i].handler = ExampleHander
                           /\ requests[i].response.status = 500
                           /\ requests[j].stage = "done"
                           /\ requests[j].handler = FileFindHandler
                           /\ requests[j].response.status = 200

----------------------------------------------------------------------------
(* C7 *)

\* the response a request for path p gets when it is the only request
Alone(p, rules, s, fs) ==
    LET d == Dispatch(rules, p)
    IN  CASE d.handler = ExampleHander -> PageResponse(s, fs)
          [] d.handler = FileFindHandler -> StaticResponse(d.kwargs, d.args, fs)
          [] OTHER -> NotFound

\* C7: a handler invocation changes nothing but its own request: the state
\* of the application, the route table, the settings, the files and every
\* other request are left as they are, and the response it produces is the
\* one the request would get if it were served alone, whatever other
\* requests are in flight.
C7_HandlersShareNoState ==
    [][\A i \in Slots : Completes(i) =>
          /\ requests'[i].response = Alone(requests[i].path, handlers, settings, files)
          /\ requests'[i].path = requests[i].path
          /\ \A j \in Slots \ {i} : requests'[j] = requests[j]
          /\ UNCHANGED <<state, handlers, settings, files>>]_vars

C7_Witness ==
    \E i, j \in Slots : /\ i # j
                        /\ requests[i].stage = "done"
                        /\ requests[i].handler = ExampleHander
                        /\ requests[i].response.status = 200
                        /\ requests[j].stage = "done"
                        /\ requests[j].handler = ExampleHander
                        /\ requests[j].response.status = 500

----------------------------------------------------------------------------
(* C8 *)

Matches(rule, p) == ReMatch(rule.pattern, p).ok

\* the handler of the first rule, in registration order, that matches p
FirstMatch(rules, p) ==
    IF \E k \in DOMAIN rules : Matches(rules[k], p)
    THEN LET k == CHOOSE n \in DOMAIN rules :
                    /\ Matches(rules[n], p)
                    /\ \A m \in DOMAIN rules : Matches(rules[m], p) => n <= m
         IN  rules[k].handler
    ELSE HostHandlers

FirstMatchOf == [p \in Paths |-> FirstMatch(StartHandlers, p)]

MatchedByBoth == {p \in Paths : \A k \in DOMAIN StartHandlers : Matches(StartHandlers[k], p)}

\* C8: the handler of every request is that of the first registered pattern
\* matching the whole path; a path matched by both patterns is served by the
\* page handler, never by the static handler.
C8_FirstMatchWins ==
    \A i \in Slots : Active(i) =>
        /\ handlers = StartHandlers
        /\ requests[i].handler = FirstMatchOf[requests[i].path]
        /\ requests[i].path \in MatchedByBoth => requests[i].handler = ExampleHander

C8_Witness ==
    \E i \in Slots : /\ requests[i].stage = "done"
                     /\ requests[i].handler = ExampleHander
                     /\ requests[i].path \in MatchedByBoth

----------------------------------------------------------------------------
(* C9 *)

Registered(h) == \E k \in DOMAIN handlers : handlers[k].handler = h

\* C9: the application is either unstarted or running; it is never running
\* without both route entries registered, no request is dispatched while it
\* is unstarted, and once running it stays running.
C9_StartLifecycle ==
    /\ [](state \in {"unstarted", "running"})
    /\ [](state = "running" => Registered(ExampleHander) /\ Registered(FileFindHandler))
    /\ [](state = "unstarted" => \A i \in Slots : ~Active(i))
    /\ [][state = "running" => state' = "running"]_vars

C9_Witness ==
    /\ state = "running"
    /\ Registered(ExampleHander) /\ Registered(FileFindHandler)
    /\ \A i \in Slots : requests[i].stage = "routed"

----------------------------------------------------------------------------
(* C10 *)

\* C10: the page handler serves exactly "/example" and "/example/"; the
\* static handler serves exactly the paths "/example/<sub>" with a non-empty
\* <sub>, which is its argument; every other path is served by neither.
C10_PatternsPartitionPaths ==
    \A i \in Slots : Active(i) =>
        LET p == requests[i].path
            h == requests[i].handler
        IN  /\ h = ExampleHander <=> p \in {EXAMPLE, RootSlash}
            /\ h = FileFindHandler <=> IsSubPath(p)
            /\ h = FileFindHandler => requests[i].args = <<SubOf(p)>> /\ SubOf(p) # <<>>
            /\ h = HostHandlers <=> ~(p \in {EXAMPLE, RootSlash} \/ IsSubPath(p))

C10_Witness ==
    \E i, j \in Slots : /\ requests[i].stage = "routed"
                        /\ requests[i].path = EXAMPLE \o <<"a">>
                        /\ requests[i].handler = HostHandlers
                        /\ requests[j].stage = "routed"
                        /\ requests[j].path = RootSlash \o <<"/">>
                        /\ requests[j].args = << <<"/">> >>
                        /\ requests[j].handler = FileFindHandler

====
